---------------------------- MODULE Spec2Model ----------------------------
(***************************************************************************)
(* Path finding with Z3 (nturley/ilp_layout).                              *)
(*                                                                         *)
(* Two versions of solve_maze(grid, t_max) are modelled:                   *)
(*   "bonus": src/unnamed/part_000 -- only timestep 0 is pinned, one point *)
(*            is scored for every timestep on the destination;             *)
(*   "fixed": src/Pathfinding.ipynb -- timestep 0 and timestep t_max-1 are *)
(*            pinned, 100 points per timestep on the destination, and an   *)
(*            exception when the check is not sat.                         *)
(*                                                                         *)
(* A call is a run of the state machine: the constraints are emitted one   *)
(* loop iteration at a time, the solver (z3.Optimize) is asked once, and   *)
(* the model it returns is decoded into node_pos by variable name.         *)
(*                                                                         *)
(* The Optimal Stopping cells of src/Pathfinding.ipynb are modelled as a   *)
(* second state machine: the rules of the game are added to a z3.Solver,   *)
(* and a loop asks for ever more gold at the last time unit until the      *)
(* check is not sat.                                                       *)
(***************************************************************************)
EXTENDS Integers, Sequences, FiniteSets, TLC

VARIABLES variant, grid, t_max, pc, t, declared, constraints, score,
          check_result, solution, node_pos, err, first,
          tmax, max_miners, solver, goal, s, prev_model, cell

vars == <<variant, grid, t_max, pc, t, declared, constraints, score,
          check_result, solution, node_pos, err, first,
          tmax, max_miners, solver, goal, s, prev_model, cell>>

\* the variables of solve_maze and of the cell that calls it
maze == <<variant, grid, t_max, pc, t, declared, constraints, score,
          check_result, solution, node_pos, err, first>>

\* the variables of the Optimal Stopping cells of Pathfinding.ipynb
stopping == <<tmax, max_miners, solver, goal, s, prev_model, cell>>

(***************************************************************************)
(* Bounds of the model.                                                    *)
(***************************************************************************)
\* a grid has at most MaxCells cells (width * height)
MaxCells == 6
\* a grid cell holds a value in 0..MaxCell
MaxCell == 1
\* horizons 1..MaxT
MaxT == 4
\* the solver searches integer values from -Slack to (largest dimension - 1) + Slack
Slack == 1
\* the decoding step alone: horizons 1..MaxDecodeT
MaxDecodeT == 2
\* calls on a grid of one cell: horizons 1..MaxLongT
MaxLongT == 12
\* small inputs with larger cell values: at most MaxSmallCells cells, each
\* holding a value in 0..MaxMagnitude, horizons 1..MaxSmallT
MaxSmallCells == 4
MaxMagnitude == 2
MaxSmallT == 3
\* calls on the 3 x 3 grid of the notebooks: horizons 1..MaxScenarioT
MaxScenarioT == 6
\* grids whose rows differ in length: at most MaxRaggedRows rows of at most
\* MaxRaggedLen cells
MaxRaggedRows == 2
MaxRaggedLen == 2

\* coordinates tried in a step constraint lie in -MaxStep..MaxStep
MaxStep == 2
\* Optimal Stopping with other constants: tmax in 1..MaxHorizon and
\* max_miners in 0..MaxBuyable
MaxHorizon == 10
MaxBuyable == 2

(***************************************************************************)
(* Inputs.  grid is a list of rows, grid[y][x] in Python, which is         *)
(* grid[y + 1][x + 1] here.                                                *)
(***************************************************************************)
Variants == {"bonus", "fixed"}

Dims == {d \in (1..MaxCells) \X (1..MaxCells) : d[1] * d[2] <= MaxCells}

InputGrids == UNION {[1..d[2] -> [1..d[1] -> 0..MaxCell]] : d \in Dims}

\* Dimension(len(grid[0]), len(grid))
Width(g) == Len(g[1])

Height(g) == Len(g)

\* grid[y][x]
Cell(g, x, y) == g[y + 1][x + 1]

(***************************************************************************)
(* Variable names, as the strings the code builds.                         *)
(***************************************************************************)
DigitChar(d) == <<"0", "1", "2", "3", "4", "5", "6", "7", "8", "9">>[d + 1]

\* the decimal conversion keeping the last digit only
Str_LastDigit(n) == DigitChar(n % 10)

\* str(n) and '%d' % n for n >= 0
RECURSIVE Str(_)
Str(n) == IF n < 10 THEN DigitChar(n)
          ELSE Str(n \div 10) \o DigitChar(n % 10)

\* 'x[' + str(t) + ']'
XName(i) == "x[" \o Str(i) \o "]"

\* 'y[' + str(t) + ']'
YName(i) == "y[" \o Str(i) \o "]"

\* 'z[%d]' % t
ZPrefix(i) == "z[" \o Str(i) \o "]"

\* ZPoint(prefix).x is the Int named prefix + '.x'
ZX(i) == ZPrefix(i) \o ".x"

\* ZPoint(prefix).y is the Int named prefix + '.y'
ZY(i) == ZPrefix(i) \o ".y"

NoVar == ""

(***************************************************************************)
(* Constraints; the solver holds them as a list.  One record shape for all *)
(* of them; the fields a kind does not use are NoVar or 0.                 *)
(*   gt     : v1 > c1                                                      *)
(*   lt     : v1 < c1                                                      *)
(*   eq     : v1 == c1                                                     *)
(*   dist   : zabs(v1 - v3) + zabs(v2 - v4) <= c1                          *)
(*   ne     : Or(v1 != c1, v2 != c2)                                       *)
(*   at     : And(v1 == c1, v2 == c2)                                      *)
(*   within : And(v1 > -1, v1 < c1, v2 > -1, v2 < c2)                      *)
(***************************************************************************)
Con(k, a, b, c, d, m, n) ==
    [kind |-> k, v1 |-> a, v2 |-> b, v3 |-> c, v4 |-> d, c1 |-> m, c2 |-> n]

VarsOf(c) == {c.v1, c.v2, c.v3, c.v4} \ {NoVar}

\* zabs without the case split: the sign of a difference is kept
zabs_NoNegation(x) == x

\* z3.If(x >= 0, x, -x)
zabs(x) == IF x >= 0 THEN x ELSE -x

\* the value of constraint c under assignment a (a function from names to integers)
Holds(c, a) ==
    CASE c.kind = "gt"     -> a[c.v1] > c.c1
      [] c.kind = "lt"     -> a[c.v1] < c.c1
      [] c.kind = "eq"     -> a[c.v1] = c.c1
      [] c.kind = "dist"   -> zabs(a[c.v1] - a[c.v3]) + zabs(a[c.v2] - a[c.v4]) <= c.c1
      [] c.kind = "ne"     -> a[c.v1] # c.c1 \/ a[c.v2] # c.c2
      [] c.kind = "at"     -> a[c.v1] = c.c1 /\ a[c.v2] = c.c2
      [] c.kind = "within" -> /\ a[c.v1] > -1
                              /\ a[c.v1] < c.c1
                              /\ a[c.v2] > -1
                              /\ a[c.v2] < c.c2

(***************************************************************************)
(* What solve_maze of src/unnamed/part_000 adds for timestep i, in the     *)
(* order of the solver.add calls.                                          *)
(***************************************************************************)
\* the bounds with `<= width`, `<= height` in place of `<`
BonusBounds_OffByOne(g, i) ==
    << Con("gt", XName(i), NoVar, NoVar, NoVar, -1, 0),
       Con("lt", XName(i), NoVar, NoVar, NoVar, Width(g) + 1, 0),
       Con("gt", YName(i), NoVar, NoVar, NoVar, -1, 0),
       Con("lt", YName(i), NoVar, NoVar, NoVar, Height(g) + 1, 0) >>

\* pos must be within the grid
BonusBounds(g, i) ==
    << Con("gt", XName(i), NoVar, NoVar, NoVar, -1, 0),
       Con("lt", XName(i), NoVar, NoVar, NoVar, Width(g), 0),
       Con("gt", YName(i), NoVar, NoVar, NoVar, -1, 0),
       Con("lt", YName(i), NoVar, NoVar, NoVar, Height(g), 0) >>

\* the start pin left out
BonusStart_Missing(i) == << >>

\* the first pos must be the start
BonusStart(i) ==
    << Con("eq", XName(i), NoVar, NoVar, NoVar, 0, 0),
       Con("eq", YName(i), NoVar, NoVar, NoVar, 0, 0) >>

\* the step constraint with `< 1`
BonusAdjacent_Frozen(i) ==
    << Con("dist", XName(i), YName(i), XName(i - 1), YName(i - 1), 0, 0) >>

\* pos must be one step away from previous
BonusAdjacent(i) ==
    << Con("dist", XName(i), YName(i), XName(i - 1), YName(i - 1), 1, 0) >>

\* for y in range(height): for x in range(width): the cells in that order
CellsInOrder(g) ==
    [k \in 1..Width(g) * Height(g) |->
        <<(k - 1) % Width(g), (k - 1) \div Width(g)>>]

\* the barrier exclusion with x and y exchanged
BonusBarriers_Transposed(g, i) ==
    LET bs == SelectSeq(CellsInOrder(g), LAMBDA p : Cell(g, p[1], p[2]) > 0)
    IN  [k \in 1..Len(bs) |->
            Con("ne", XName(i), YName(i), NoVar, NoVar, bs[k][2], bs[k][1])]

\* no pos may be on a barrier
BonusBarriers(g, i) ==
    LET bs == SelectSeq(CellsInOrder(g), LAMBDA p : Cell(g, p[1], p[2]) > 0)
    IN  [k \in 1..Len(bs) |->
            Con("ne", XName(i), YName(i), NoVar, NoVar, bs[k][1], bs[k][2])]

\* the score term with width and height exchanged
BonusScoreTerm_Transposed(g, i) ==
    [v1 |-> XName(i), v2 |-> YName(i), c1 |-> Height(g) - 1, c2 |-> Width(g) - 1,
     w |-> 1]

\* z3.If(z3.And(xt[t] == grid_dim.width-1, yt[t] == grid_dim.height-1), 1, 0)
BonusScoreTerm(g, i) ==
    [v1 |-> XName(i), v2 |-> YName(i), c1 |-> Width(g) - 1, c2 |-> Height(g) - 1,
     w |-> 1]

\* the body of the loop over t, up to the score
BonusStepConstraints(g, i) ==
    BonusBounds(g, i)
    \o (IF i = 0 THEN BonusStart(i) ELSE BonusAdjacent(i))
    \o BonusBarriers(g, i)

(***************************************************************************)
(* What solve_maze of src/Pathfinding.ipynb adds.                          *)
(***************************************************************************)
\* each_barrier yielding Point(y, x)
each_barrier_Transposed(g) ==
    LET bs == SelectSeq(CellsInOrder(g), LAMBDA p : Cell(g, p[1], p[2]) > 0)
    IN  [k \in 1..Len(bs) |-> <<bs[k][2], bs[k][1]>>]

\* each_barrier with `== 1` in place of `> 0`
each_barrier_OnlyOnes(g) ==
    SelectSeq(CellsInOrder(g), LAMBDA p : Cell(g, p[1], p[2]) = 1)

\* each_barrier(grid): Point(x, y) for every grid[y][x] > 0, rows first
each_barrier(g) ==
    SelectSeq(CellsInOrder(g), LAMBDA p : Cell(g, p[1], p[2]) > 0)

\* ZPoint.__eq__(zt[i], Point(x, y))
ZEq(i, x, y) == Con("at", ZX(i), ZY(i), NoVar, NoVar, x, y)

\* ZPoint.__ne__(zt[i], Point(x, y))
ZNe(i, x, y) == Con("ne", ZX(i), ZY(i), NoVar, NoVar, x, y)

\* zt[i].within(Dimension(w, h))
ZWithin(i, w, h) == Con("within", ZX(i), ZY(i), NoVar, NoVar, w, h)

\* the step constraint with `<= 2`
ZStep_Two(i, j) == Con("dist", ZX(i), ZY(i), ZX(j), ZY(j), 2, 0)

\* zt[i].distance_from(zt[j]) <= 1
ZStep(i, j) == Con("dist", ZX(i), ZY(i), ZX(j), ZY(j), 1, 0)

\* source = Point(0, 0); solver.add(zt[0] == source)
FixedSource == << ZEq(0, 0, 0) >>

\* the destination pin left out
FixedDestination_Missing(g, n) == << >>

\* the destination taken as Point(width, height)
FixedDestination_OffByOne(g, n) == << ZEq(n - 1, Width(g), Height(g)) >>

\* destination = Point(width - 1, height - 1); solver.add(zt[-1] == destination)
FixedDestination(g, n) == << ZEq(n - 1, Width(g) - 1, Height(g) - 1) >>

\* the body of the loop over t, up to the score
FixedStepConstraints(g, i) ==
    LET bs == each_barrier(g)
    IN  << ZWithin(i, Width(g), Height(g)) >>
        \o (IF i > 0 THEN << ZStep(i, i - 1) >> ELSE << >>)
        \o [k \in 1..Len(bs) |-> ZNe(i, bs[k][1], bs[k][2])]

\* the score term worth 1 as in the destination-bonus code
FixedScoreTerm_Unit(g, i) ==
    [v1 |-> ZX(i), v2 |-> ZY(i), c1 |-> Width(g) - 1, c2 |-> Height(g) - 1,
     w |-> 1]

\* z3.If(pos == destination, 100, 0)
FixedScoreTerm(g, i) ==
    [v1 |-> ZX(i), v2 |-> ZY(i), c1 |-> Width(g) - 1, c2 |-> Height(g) - 1,
     w |-> 100]

(***************************************************************************)
(* A row shorter than row 0: grid[y][x] raises IndexError at the first     *)
(* cell, in the order of the two loops, that the row does not have.  The   *)
(* constraints added until then stay in the solver.                        *)
(***************************************************************************)
\* every row has a cell for each x in range(width): no grid[y][x] raises
RowsCoverWidth(g) == \A y \in 1..Len(g) : Len(g[y]) >= Width(g)

\* the place in CellsInOrder of the first cell that raises, 0 when none does
FirstBadCell(g) ==
    LET cells == CellsInOrder(g)
        bad   == { k \in 1..Len(cells) : cells[k][1] >= Len(g[cells[k][2] + 1]) }
    IN  IF bad = {} THEN 0 ELSE CHOOSE k \in bad : \A j \in bad : k <= j

\* the barriers found before the cell at place k
BarriersBefore(g, k) ==
    SelectSeq(SubSeq(CellsInOrder(g), 1, k - 1), LAMBDA p : Cell(g, p[1], p[2]) > 0)

\* part_000: what iteration i adds before grid[y][x] raises
BonusStepUntilRaise(g, i) ==
    LET bs == BarriersBefore(g, FirstBadCell(g))
    IN  BonusBounds(g, i)
        \o (IF i = 0 THEN BonusStart(i) ELSE BonusAdjacent(i))
        \o [k \in 1..Len(bs) |->
               Con("ne", XName(i), YName(i), NoVar, NoVar, bs[k][1], bs[k][2])]

\* Pathfinding.ipynb: what iteration i adds before each_barrier raises
FixedStepUntilRaise(g, i) ==
    LET bs == BarriersBefore(g, FirstBadCell(g))
    IN  << ZWithin(i, Width(g), Height(g)) >>
        \o (IF i > 0 THEN << ZStep(i, i - 1) >> ELSE << >>)
        \o [k \in 1..Len(bs) |-> ZNe(i, bs[k][1], bs[k][2])]

(***************************************************************************)
(* The solver, by its contract: check() is sat exactly when an assignment  *)
(* of integers to the declared variables satisfies every constraint, and   *)
(* after maximize(e) the model is one of the satisfying assignments with   *)
(* the largest value of e.  Integer values are searched in Domain(g).      *)
(***************************************************************************)
MaxOf(a, b) == IF a >= b THEN a ELSE b

Domain(g) == (0 - Slack) .. (MaxOf(Width(g), Height(g)) - 1 + Slack)

\* the assignments to the first k declared variables that satisfy every
\* constraint over those variables
RECURSIVE Assignments(_, _, _, _)
Assignments(cs, vs, dom, k) ==
    IF k = 0 THEN { <<>> }
    ELSE LET prev  == Assignments(cs, vs, dom, k - 1)
             seen  == { vs[j] : j \in 1..k }
             ready == { j \in 1..Len(cs) :
                          vs[k] \in VarsOf(cs[j]) /\ VarsOf(cs[j]) \subseteq seen }
         IN  { b \in { a @@ (vs[k] :> d) : a \in prev, d \in dom } :
                 \A j \in ready : Holds(cs[j], b) }

Models(cs, vs, dom) == Assignments(cs, vs, dom, Len(vs))

RECURSIVE Sum(_, _)
\* z3.Sum(score) under assignment a
Sum(sc, a) ==
    IF sc = <<>> THEN 0
    ELSE (IF a[sc[1].v1] = sc[1].c1 /\ a[sc[1].v2] = sc[1].c2 THEN sc[1].w ELSE 0)
         + Sum(Tail(sc), a)

\* the objective ignored: any model of the constraints
Optimal_AnyModel(cs, vs, sc, dom) == Models(cs, vs, dom)

\* the models of the constraints on which the objective is largest
Optimal(cs, vs, sc, dom) ==
    LET ms   == Models(cs, vs, dom)
        vals == { Sum(sc, m) : m \in ms }
    IN  { m \in ms : \A v \in vals : v <= Sum(sc, m) }

(***************************************************************************)
(* Decoding: {str(s): solution[s].as_long() for s in solution}, then one   *)
(* lookup by name per coordinate and timestep.  Iterating a model yields   *)
(* its declarations in an order the solver chooses.                        *)
(***************************************************************************)
\* the (name, value) pairs `for s in solution` yields, in the order `order`
ModelEntries(sol, order) == [k \in 1..Len(order) |-> <<order[k], sol[order[k]]>>]

\* the dict comprehension: one key per name, a later entry replacing an
\* earlier one of the same name
RECURSIVE DictOf(_)
DictOf(entries) ==
    IF entries = <<>> THEN <<>>
    ELSE LET n == Len(entries)
         IN  (entries[n][1] :> entries[n][2]) @@ DictOf(SubSeq(entries, 1, n - 1))

\* the decoding loop one iteration short
BonusDecode_Short(sol, n) ==
    [i \in 1..n - 1 |-> <<sol[XName(i - 1)], sol[YName(i - 1)]>>]

BonusDecode(sol, n) == [i \in 1..n |-> <<sol[XName(i - 1)], sol[YName(i - 1)]>>]

\* the decoding with the two lookups of a timestep exchanged
FixedDecode_Swapped(sol, n) == [i \in 1..n |-> <<sol[ZY(i - 1)], sol[ZX(i - 1)]>>]

FixedDecode(sol, n) == [i \in 1..n |-> <<sol[ZX(i - 1)], sol[ZY(i - 1)]>>]

BonusNames(n) == UNION { {XName(i), YName(i)} : i \in 0..n - 1 }

FixedNames(n) == UNION { {ZX(i), ZY(i)} : i \in 0..n - 1 }

\* node_pos read off the entries by position: entries 2t and 2t+1 taken for
\* the x and the y of timestep t
BonusNodePos_ByPosition(entries, n) ==
    IF Len(entries) < 2 * n THEN [raised |-> TRUE, path |-> <<>>]
    ELSE [raised |-> FALSE,
          path   |-> [i \in 1..n |-> <<entries[2 * i - 1][2], entries[2 * i][2]>>]]

\* part_000, lines 172-176: best_solution[name] raises KeyError for a name that
\* is no key, and the call ends there
BonusNodePos(entries, n) ==
    LET best_solution == DictOf(entries)
    IN  IF BonusNames(n) \subseteq DOMAIN best_solution
        THEN [raised |-> FALSE, path |-> BonusDecode(best_solution, n)]
        ELSE [raised |-> TRUE, path |-> <<>>]

\* the lookups written solution_dict.get(name, 0)
FixedNodePos_Default(entries, n) ==
    LET solution_dict == DictOf(entries)
        get(name)     == IF name \in DOMAIN solution_dict THEN solution_dict[name]
                         ELSE 0
    IN  [raised |-> FALSE,
         path   |-> [i \in 1..n |-> <<get(ZX(i - 1)), get(ZY(i - 1))>>]]

\* Pathfinding.ipynb, lines 256-262: solution_dict[name] raises KeyError for a
\* name that is no key, and the call ends there
FixedNodePos(entries, n) ==
    LET solution_dict == DictOf(entries)
    IN  IF FixedNames(n) \subseteq DOMAIN solution_dict
        THEN [raised |-> FALSE, path |-> FixedDecode(solution_dict, n)]
        ELSE [raised |-> TRUE, path |-> <<>>]

\* sequence s back to front
Reverse(sq) == [k \in 1..Len(sq) |-> sq[Len(sq) + 1 - k]]

\* two orders in which a model may yield its declarations: the order of
\* declaration and the opposite one
TwoOrders(sol, decl) ==
    LET o == SelectSeq(decl, LAMBDA v : v \in DOMAIN sol)
    IN  {o, Reverse(o)}

\* every order in which a model may yield its declarations
RECURSIVE Orderings(_)
Orderings(S) ==
    IF S = {} THEN { <<>> }
    ELSE UNION { { <<v>> \o o : o \in Orderings(S \ {v}) } : v \in S }

(***************************************************************************)
(* The state machine.                                                      *)
(***************************************************************************)
\* prev_model before the first `prev_model = solver.model()`
Unbound == <<>>

\* the Optimal Stopping cells have not run
StoppingIdle ==
    /\ tmax = 0
    /\ max_miners = 0
    /\ solver = <<>>
    /\ goal = 0
    /\ s = "none"
    /\ prev_model = Unbound
    /\ cell = "idle"

NoModel == <<>>

\* the outcome of an earlier call with the same arguments, when there is one
NoOutcome == [pc |-> "none", err |-> "none", node_pos |-> <<>>]

Init ==
    /\ variant \in Variants
    /\ grid \in InputGrids
    /\ t_max \in 1..MaxT
    /\ pc = "start"
    /\ t = 0
    /\ declared = <<>>
    /\ constraints = <<>>
    /\ score = <<>>
    /\ check_result = "none"
    /\ solution = NoModel
    /\ node_pos = <<>>
    /\ err = "none"
    /\ first = NoOutcome
    /\ StoppingIdle

\* part_000: grid_dim, xt, yt, solver = z3.Optimize(), score = []
BonusSetup ==
    /\ variant = "bonus"
    /\ pc = "start"
    /\ pc' = "loop"
    /\ UNCHANGED <<first, variant, grid, t_max, t, declared, constraints, score,
                   check_result, solution, node_pos, err>>
    /\ UNCHANGED stopping

\* part_000: one iteration of `for t in range(t_max)`
BonusStep ==
    /\ variant = "bonus"
    /\ pc = "loop"
    /\ t < t_max
    /\ declared' = declared \o <<XName(t), YName(t)>>
    /\ IF RowsCoverWidth(grid)
       THEN /\ constraints' = constraints \o BonusStepConstraints(grid, t)
            /\ score' = Append(score, BonusScoreTerm(grid, t))
            /\ t' = t + 1
            /\ UNCHANGED <<pc, err>>
       ELSE /\ constraints' = constraints \o BonusStepUntilRaise(grid, t)
            /\ pc' = "error"
            /\ err' = "IndexError"
            /\ UNCHANGED <<score, t>>
    /\ UNCHANGED <<first, variant, grid, t_max, check_result, solution, node_pos>>
    /\ UNCHANGED stopping

\* part_000: solver.maximize(z3.Sum(score)); solver.check(); solver.model().
\* The result of check() is not looked at; model() raises when there is none.
BonusSolve ==
    /\ variant = "bonus"
    /\ pc = "loop"
    /\ t = t_max
    /\ LET best == Optimal(constraints, declared, score, Domain(grid))
       IN  IF best = {}
           THEN /\ check_result' = "unsat"
                /\ pc' = "error"
                /\ err' = "Z3Exception"
                /\ UNCHANGED solution
           ELSE /\ check_result' = "sat"
                /\ solution' \in best
                /\ pc' = "decode"
                /\ UNCHANGED err
    /\ UNCHANGED <<first, variant, grid, t_max, t, declared, constraints, score, node_pos>>
    /\ UNCHANGED stopping

\* part_000: best_solution and the loop that fills node_pos, the model
\* yielding its declarations in one of the orders `orders`
BonusFinishIn(orders) ==
    /\ variant = "bonus"
    /\ pc = "decode"
    /\ \E r \in { BonusNodePos(ModelEntries(solution, order), t_max) :
                     order \in orders } :
          IF r.raised
          THEN /\ pc' = "error"
               /\ err' = "KeyError"
               /\ UNCHANGED node_pos
          ELSE /\ node_pos' = r.path
               /\ pc' = "done"
               /\ UNCHANGED err
    /\ UNCHANGED <<first, variant, grid, t_max, t, declared, constraints, score,
                   check_result, solution>>
    /\ UNCHANGED stopping

BonusFinish == BonusFinishIn(TwoOrders(solution, declared))

\* Pathfinding.ipynb: zt, solver, score, source, destination and the two pins
FixedSetup ==
    /\ variant = "fixed"
    /\ pc = "start"
    /\ declared' = [i \in 1..2 * t_max |->
                      IF i % 2 = 1 THEN ZX((i - 1) \div 2) ELSE ZY((i - 1) \div 2)]
    /\ constraints' = FixedSource \o FixedDestination(grid, t_max)
    /\ pc' = "loop"
    /\ UNCHANGED <<first, variant, grid, t_max, t, score, check_result, solution,
                   node_pos, err>>
    /\ UNCHANGED stopping

\* Pathfinding.ipynb: one iteration of `for t in range(t_max)`
FixedStep ==
    /\ variant = "fixed"
    /\ pc = "loop"
    /\ t < t_max
    /\ IF RowsCoverWidth(grid)
       THEN /\ constraints' = constraints \o FixedStepConstraints(grid, t)
            /\ score' = Append(score, FixedScoreTerm(grid, t))
            /\ t' = t + 1
            /\ UNCHANGED <<pc, err>>
       ELSE /\ constraints' = constraints \o FixedStepUntilRaise(grid, t)
            /\ pc' = "error"
            /\ err' = "IndexError"
            /\ UNCHANGED <<score, t>>
    /\ UNCHANGED <<first, variant, grid, t_max, declared, check_result, solution,
                   node_pos>>
    /\ UNCHANGED stopping

\* Pathfinding.ipynb: maximize, check, raise Exception('no bueno') unless sat,
\* solution = solver.model()
FixedSolve ==
    /\ variant = "fixed"
    /\ pc = "loop"
    /\ t = t_max
    /\ LET best == Optimal(constraints, declared, score, Domain(grid))
       IN  IF best = {}
           THEN /\ check_result' = "unsat"
                /\ pc' = "error"
                /\ err' = "no bueno"
                /\ UNCHANGED solution
           ELSE /\ check_result' = "sat"
                /\ solution' \in best
                /\ pc' = "decode"
                /\ UNCHANGED err
    /\ UNCHANGED <<first, variant, grid, t_max, t, declared, constraints, score, node_pos>>
    /\ UNCHANGED stopping

\* Pathfinding.ipynb: solution_dict and the loop that fills node_pos, the
\* model yielding its declarations in one of the orders `orders`
FixedFinishIn(orders) ==
    /\ variant = "fixed"
    /\ pc = "decode"
    /\ \E r \in { FixedNodePos(ModelEntries(solution, order), t_max) :
                     order \in orders } :
          IF r.raised
          THEN /\ pc' = "error"
               /\ err' = "KeyError"
               /\ UNCHANGED node_pos
          ELSE /\ node_pos' = r.path
               /\ pc' = "done"
               /\ UNCHANGED err
    /\ UNCHANGED <<first, variant, grid, t_max, t, declared, constraints, score,
                   check_result, solution>>
    /\ UNCHANGED stopping

FixedFinish == FixedFinishIn(TwoOrders(solution, declared))

Next ==
    \/ BonusSetup
    \/ BonusStep
    \/ BonusSolve
    \/ BonusFinish
    \/ FixedSetup
    \/ FixedStep
    \/ FixedSolve
    \/ FixedFinish

Spec == Init /\ [][Next]_vars

(***************************************************************************)
(* Calls on a grid of one cell, with horizons long enough for the variable *)
(* names to have several digits.                                           *)
(***************************************************************************)
InitLongHorizon ==
    /\ variant \in Variants
    /\ grid \in [1..1 -> [1..1 -> 0..MaxCell]]
    /\ t_max \in 1..MaxLongT
    /\ pc = "start"
    /\ t = 0
    /\ declared = <<>>
    /\ constraints = <<>>
    /\ score = <<>>
    /\ check_result = "none"
    /\ solution = NoModel
    /\ node_pos = <<>>
    /\ err = "none"
    /\ first = NoOutcome
    /\ StoppingIdle

SpecLongHorizon == InitLongHorizon /\ [][Next]_vars

(***************************************************************************)
(* Calls on small grids whose cells hold values larger than 1.             *)
(***************************************************************************)
SmallDims ==
    {d \in (1..MaxSmallCells) \X (1..MaxSmallCells) : d[1] * d[2] <= MaxSmallCells}

SmallGrids == UNION {[1..d[2] -> [1..d[1] -> 0..MaxMagnitude]] : d \in SmallDims}

InitSmall ==
    /\ variant \in Variants
    /\ grid \in SmallGrids
    /\ t_max \in 1..MaxSmallT
    /\ pc = "start"
    /\ t = 0
    /\ declared = <<>>
    /\ constraints = <<>>
    /\ score = <<>>
    /\ check_result = "none"
    /\ solution = NoModel
    /\ node_pos = <<>>
    /\ err = "none"
    /\ first = NoOutcome
    /\ StoppingIdle

SpecSmall == InitSmall /\ [][Next]_vars

(***************************************************************************)
(* The same call made a second time: the cell that calls solve_maze is run *)
(* again with the same grid and horizon, the outcome of the first call     *)
(* being kept for comparison.                                              *)
(***************************************************************************)
SolveAgain ==
    /\ pc \in {"done", "error"}
    /\ first = NoOutcome
    /\ first' = [pc |-> pc, err |-> err, node_pos |-> node_pos]
    /\ pc' = "start"
    /\ t' = 0
    /\ declared' = <<>>
    /\ constraints' = <<>>
    /\ score' = <<>>
    /\ check_result' = "none"
    /\ solution' = NoModel
    /\ node_pos' = <<>>
    /\ err' = "none"
    /\ UNCHANGED <<variant, grid, t_max>>
    /\ UNCHANGED stopping

NextTwice ==
    \/ Next
    \/ SolveAgain

SpecTwice == InitSmall /\ [][NextTwice]_vars

(***************************************************************************)
(* The two variants on the same input: after one notebook's solve_maze has *)
(* ended, the other notebook's solve_maze is called with the same grid and *)
(* horizon, the outcome of the first call being kept for comparison.       *)
(***************************************************************************)
SolveOther ==
    /\ pc \in {"done", "error"}
    /\ first = NoOutcome
    /\ first' = [pc |-> pc, err |-> err, node_pos |-> node_pos]
    /\ variant' = IF variant = "bonus" THEN "fixed" ELSE "bonus"
    /\ pc' = "start"
    /\ t' = 0
    /\ declared' = <<>>
    /\ constraints' = <<>>
    /\ score' = <<>>
    /\ check_result' = "none"
    /\ solution' = NoModel
    /\ node_pos' = <<>>
    /\ err' = "none"
    /\ UNCHANGED <<grid, t_max>>
    /\ UNCHANGED stopping

NextBoth ==
    \/ Next
    \/ SolveOther

SpecBoth == InitSmall /\ [][NextBoth]_vars

(***************************************************************************)
(* The calls the notebooks make: the 3 x 3 grid with two obstacles, solved *)
(* with horizon 6 in part_000 and with horizon 5 in Pathfinding.ipynb.     *)
(***************************************************************************)
ScenarioGrid == << <<0, 1, 0>>,
                   <<0, 0, 0>>,
                   <<0, 1, 0>> >>

\* solve_maze(grid, 5) of Pathfinding.ipynb
ScenarioA_T == 5

\* solve_maze(grid, 6) of part_000
ScenarioB_T == 6

InitScenario ==
    /\ variant \in Variants
    /\ grid = ScenarioGrid
    /\ t_max \in 1..MaxScenarioT
    /\ pc = "start"
    /\ t = 0
    /\ declared = <<>>
    /\ constraints = <<>>
    /\ score = <<>>
    /\ check_result = "none"
    /\ solution = NoModel
    /\ node_pos = <<>>
    /\ err = "none"
    /\ first = NoOutcome
    /\ StoppingIdle

SpecScenario == InitScenario /\ [][Next]_vars

(***************************************************************************)
(* Calls on grids whose rows differ in length.                             *)
(***************************************************************************)
\* the rows of 1..MaxRaggedLen cells
RaggedRows == UNION { [1..l -> 0..MaxCell] : l \in 1..MaxRaggedLen }

RaggedGrids ==
    { g \in UNION { [1..n -> RaggedRows] : n \in 2..MaxRaggedRows } :
        \E y \in 2..Len(g) : Len(g[y]) # Len(g[1]) }

InitRagged ==
    /\ variant \in Variants
    /\ grid \in RaggedGrids
    /\ t_max \in 1..MaxSmallT
    /\ pc = "start"
    /\ t = 0
    /\ declared = <<>>
    /\ constraints = <<>>
    /\ score = <<>>
    /\ check_result = "none"
    /\ solution = NoModel
    /\ node_pos = <<>>
    /\ err = "none"
    /\ first = NoOutcome
    /\ StoppingIdle

SpecRagged == InitRagged /\ [][Next]_vars

(***************************************************************************)
(* The decoding step alone, applied to whatever solver.model() may hand    *)
(* over after a sat check: a model that binds any of the expected names,   *)
(* each to a coordinate of the grid, and yields its declarations in any    *)
(* order.  The grid is the 2 x 2 grid without obstacles.                   *)
(***************************************************************************)
\* xt, yt (part_000) and zt (Pathfinding.ipynb) in the order of declaration
DeclaredNames(v, n) ==
    [i \in 1..2 * n |->
        IF v = "bonus"
        THEN (IF i % 2 = 1 THEN XName((i - 1) \div 2) ELSE YName((i - 1) \div 2))
        ELSE (IF i % 2 = 1 THEN ZX((i - 1) \div 2) ELSE ZY((i - 1) \div 2))]

InitDecode ==
    /\ variant \in Variants
    /\ grid = << <<0, 0>>, <<0, 0>> >>
    /\ t_max \in 1..MaxDecodeT
    /\ pc = "decode"
    /\ t = t_max
    /\ declared = DeclaredNames(variant, t_max)
    /\ constraints = <<>>
    /\ score = <<>>
    /\ check_result = "sat"
    /\ solution \in UNION { [S -> 0..Width(grid) - 1] :
                              S \in SUBSET { declared[k] : k \in 1..Len(declared) } }
    /\ node_pos = <<>>
    /\ err = "none"
    /\ first = NoOutcome
    /\ StoppingIdle

BonusFinishAnyOrder == BonusFinishIn(Orderings(DOMAIN solution))

FixedFinishAnyOrder == FixedFinishIn(Orderings(DOMAIN solution))

NextDecode ==
    \/ BonusFinishAnyOrder
    \/ FixedFinishAnyOrder

SpecDecode == InitDecode /\ [][NextDecode]_vars

(***************************************************************************)
(* Optimal Stopping (src/Pathfinding.ipynb).  The constants of the         *)
(* notebook; tmax and max_miners are variables, so that the cells can also *)
(* be run with a shorter horizon and fewer miners.                         *)
(***************************************************************************)
\* tmax = 20
NotebookTmax == 20

\* max_miners = 6
NotebookMaxMiners == 6

miner_cost == 6

start_miners == 0

start_gold == 6

\* available_miners = max_miners - start_miners
available_miners == max_miners - start_miners

\* the income without the miners bought
Income_StartOnly(n) == start_miners

\* miners[t] = start_miners + Sum(If(t > m, 1, 0)), n miners having started
\* before t
Income(n) == start_miners + n

\* the purchase cost at twice the price
Purchase_Double(b) == 2 * miner_cost * b

\* Sum(purchase_costs) when b miners start at t
Purchase(b) == miner_cost * b

\* The values of gold[0..u] and the start times below u + 1 that the rules
\* allow for a horizon T with M miners to buy: gold[0] == start_gold and, for
\* t > 0, gold[t] > -1 and gold[t] == gold[t-1] + miners[t] - purchase costs,
\* the start times being positive and in ascending order.  Every miner
\* started before t has a start time below t, so there are
\* Len(miner_start) of them.
RECURSIVE Runs(_, _, _)
Runs(T, M, u) ==
    IF u = 0 THEN { [gold |-> <<start_gold>>, miner_start |-> <<>>] }
    ELSE UNION { { [gold |-> Append(r.gold, r.gold[u] + Income(Len(r.miner_start))
                                                - Purchase(b)),
                    miner_start |-> r.miner_start \o [k \in 1..b |-> u]] :
                     b \in { c \in 0..(M - Len(r.miner_start)) :
                               r.gold[u] + Income(Len(r.miner_start)) - Purchase(c) > -1 } } :
                 r \in Runs(T, M, u - 1) }

\* The models of the rules added by the third cell: a run up to tmax - 1,
\* the miners not bought by then having start time tmax (miner_start <
\* tmax + 1), which no t in range(tmax) reaches.
StoppingModels(T, M) ==
    { [gold |-> r.gold,
       miner_start |-> r.miner_start \o [k \in 1..(M - Len(r.miner_start)) |-> T]] :
        r \in Runs(T, M, T - 1) }

\* the models of the rules with the constants of the notebook
NotebookModels == StoppingModels(NotebookTmax, NotebookMaxMiners - start_miners)

\* the models of the rules with the constants of the run
BaseModels ==
    IF tmax = NotebookTmax /\ max_miners = NotebookMaxMiners
    THEN NotebookModels
    ELSE StoppingModels(tmax, available_miners)

\* what the third cell adds to the solver, taken as one assertion
Rules == [kind |-> "rules", bound |-> 0]

\* gold[tmax-1] > goal
Above(g) == [kind |-> "above", bound |-> g]

\* model m of the rules satisfies assertion a
Satisfies(m, a) == (a.kind = "above") => (m.gold[Len(m.gold)] > a.bound)

\* solver.check() / solver.model(): the models of every assertion of every
\* frame of solver sv
ModelsOf(sv) ==
    { m \in BaseModels :
        \A i \in 1..Len(sv) : \A j \in 1..Len(sv[i]) : Satisfies(m, sv[i][j]) }

\* solver.pop() leaving the frame in place
PopFrame_Keep(sv) == sv

\* solver.pop()
PopFrame(sv) == SubSeq(sv, 1, Len(sv) - 1)

\* solve_maze is not running
MazeIdle ==
    /\ variant = "none"
    /\ grid = <<>>
    /\ t_max = 0
    /\ pc = "idle"
    /\ t = 0
    /\ declared = <<>>
    /\ constraints = <<>>
    /\ score = <<>>
    /\ check_result = "none"
    /\ solution = NoModel
    /\ node_pos = <<>>
    /\ err = "none"
    /\ first = NoOutcome

\* the constants cell run with a shorter horizon and fewer miners
ShortConstants == (1..MaxHorizon) \X (0..MaxBuyable)

\* the constants cell has run, with the values of the notebook or others
InitStopping ==
    /\ MazeIdle
    /\ \E c \in ShortConstants \cup {<<NotebookTmax, NotebookMaxMiners>>} :
          tmax = c[1] /\ max_miners = c[2]
    /\ solver = <<>>
    /\ goal = 0
    /\ s = "none"
    /\ prev_model = Unbound
    /\ cell = "setup"

\* solver = z3.Solver() and the third cell: the rules are added
StoppingSetup ==
    /\ cell = "setup"
    /\ solver' = << <<Rules>> >>
    /\ cell' = "start"
    /\ UNCHANGED <<tmax, max_miners, goal, s, prev_model>>
    /\ UNCHANGED maze

\* goal = start_gold
StartGoal ==
    /\ cell = "start"
    /\ goal' = start_gold
    /\ cell' = "push"
    /\ UNCHANGED <<tmax, max_miners, solver, s, prev_model>>
    /\ UNCHANGED maze

\* solver.push()
Push ==
    /\ cell = "push"
    /\ solver' = Append(solver, <<>>)
    /\ cell' = "add"
    /\ UNCHANGED <<tmax, max_miners, goal, s, prev_model>>
    /\ UNCHANGED maze

\* solver.add(gold[tmax-1] > goal)
AddGoal ==
    /\ cell = "add"
    /\ solver' = [solver EXCEPT ![Len(solver)] = Append(@, Above(goal))]
    /\ cell' = "check"
    /\ UNCHANGED <<tmax, max_miners, goal, s, prev_model>>
    /\ UNCHANGED maze

\* s = solver.check(); if s != z3.sat: break
Check ==
    /\ cell = "check"
    /\ IF ModelsOf(solver) # {}
       THEN s' = "sat" /\ cell' = "model"
       ELSE s' = "unsat" /\ cell' = "exit"
    /\ UNCHANGED <<tmax, max_miners, solver, goal, prev_model>>
    /\ UNCHANGED maze

\* prev_model = solver.model(): any model of the assertions
TakeModel ==
    /\ cell = "model"
    /\ prev_model' \in ModelsOf(solver)
    /\ cell' = "goal"
    /\ UNCHANGED <<tmax, max_miners, solver, goal, s>>
    /\ UNCHANGED maze

\* goal = prev_model[gold[tmax-1]]
RaiseGoal ==
    /\ cell = "goal"
    /\ goal' = prev_model.gold[tmax]
    /\ cell' = "pop"
    /\ UNCHANGED <<tmax, max_miners, solver, s, prev_model>>
    /\ UNCHANGED maze

\* solver.pop(), and back to the head of the loop
Pop ==
    /\ cell = "pop"
    /\ solver' = PopFrame(solver)
    /\ cell' = "push"
    /\ UNCHANGED <<tmax, max_miners, goal, s, prev_model>>
    /\ UNCHANGED maze

NextStopping ==
    \/ StoppingSetup
    \/ StartGoal
    \/ Push
    \/ AddGoal
    \/ Check
    \/ TakeModel
    \/ RaiseGoal
    \/ Pop

SpecStopping == InitStopping /\ [][NextStopping]_vars

\* the cells run with a shorter horizon and fewer miners only
InitShortStopping ==
    /\ InitStopping
    /\ <<tmax, max_miners>> \in ShortConstants

\* the cells are run to the end: the kernel executes the next statement
FairSpecStopping == InitShortStopping /\ [][NextStopping]_vars /\ WF_vars(NextStopping)

(***************************************************************************)
(* Reference notions the properties are stated with.  They are written     *)
(* from the meaning of a path on the grid, not from the constraints.       *)
(***************************************************************************)
Start == <<0, 0>>

Destination == <<Width(grid) - 1, Height(grid) - 1>>

InBounds(p) == /\ 0 <= p[1]
               /\ p[1] < Width(grid)
               /\ 0 <= p[2]
               /\ p[2] < Height(grid)

GridCells == (0..Width(grid) - 1) \X (0..Height(grid) - 1)

\* row p[2], column p[1] of the input matrix holds a positive value
IsObstacle(p) == InBounds(p) /\ grid[p[2] + 1][p[1] + 1] > 0

FreeCells == { p \in GridCells : ~IsObstacle(p) }

Abs(n) == IF n < 0 THEN 0 - n ELSE n

Manhattan(p, q) == Abs(p[1] - q[1]) + Abs(p[2] - q[2])

\* the valid paths of n positions: free cells, the first one the start, every
\* next one at Manhattan distance <= 1 from the one before
RECURSIVE Walks(_)
Walks(n) ==
    IF n = 1 THEN { <<p>> : p \in FreeCells \cap {Start} }
    ELSE UNION { { Append(w, p) : p \in { q \in FreeCells :
                                             Manhattan(w[n - 1], q) <= 1 } } :
                 w \in Walks(n - 1) }

ValidPaths == Walks(t_max)

\* number of timesteps of path p on the destination
PathScore(p) == Cardinality({ i \in 1..Len(p) : p[i] = Destination })

\* the free cells reachable from the start by moves to one of the 4 neighbours
RECURSIVE Reach(_)
Reach(S) ==
    LET N == S \cup { c \in FreeCells : \E q \in S : Manhattan(c, q) = 1 }
    IN  IF N = S THEN S ELSE Reach(N)

Reachable == IF Start \in FreeCells THEN Reach({Start}) ELSE {}

Built == pc = "loop" /\ t = t_max

Returned == pc = "done"

Ended == pc \in {"done", "error"}

(***************************************************************************)
(* Properties.                                                             *)
(***************************************************************************)

\* C1: destination-bonus variant, once every constraint is emitted: the
\* assignments that satisfy the constraints are exactly the valid paths of
\* t_max positions (in bounds, off the obstacles, first position (0,0),
\* consecutive positions at Manhattan distance <= 1), one assignment per path.
C1_ConstraintsAreExactlyValidPaths ==
    (variant = "bonus" /\ Built) =>
        LET ms == Models(constraints, declared, Domain(grid))
        IN  /\ { BonusDecode(m, t_max) : m \in ms } = ValidPaths
            /\ Cardinality(ms) = Cardinality(ValidPaths)

C1_Witness ==
    /\ variant = "bonus"
    /\ Built
    /\ t_max >= 3
    /\ each_barrier(grid) # <<>>
    /\ Cardinality(ValidPaths) > 2

\* C2: destination-bonus variant: no valid path of t_max positions is on the
\* destination at more timesteps than the returned path.
C2_ReturnedScoreIsMaximal ==
    (variant = "bonus" /\ Returned) =>
        \A p \in ValidPaths : PathScore(p) <= PathScore(node_pos)

C2_Witness ==
    /\ variant = "bonus"
    /\ Returned
    /\ PathScore(node_pos) >= 2
    /\ node_pos[2] # Destination
    /\ \E p \in ValidPaths : PathScore(p) < PathScore(node_pos)

\* C3: fixed-endpoint variant: a returned path ends on the destination, and
\* when no valid path of t_max positions ends on the destination the solve is
\* unsat, the call ends in the 'no bueno' exception and no path is produced.
C3_FixedEndpointOrInfeasible ==
    variant = "fixed" =>
        /\ Returned => node_pos[t_max] = Destination
        /\ pc \in {"decode", "done"} => check_result = "sat"
        /\ (check_result # "none" /\ \A p \in ValidPaths : p[t_max] # Destination) =>
              /\ check_result = "unsat"
              /\ pc = "error"
              /\ err = "no bueno"
              /\ node_pos = <<>>

C3_Witness ==
    /\ variant = "fixed"
    /\ pc = "error"
    /\ err = "no bueno"
    /\ t_max >= 2
    /\ {Start, Destination} \subseteq FreeCells
    /\ ValidPaths # {}
    /\ \A p \in ValidPaths : p[t_max] # Destination

\* C4: in every returned path, of both variants, consecutive positions are at
\* Manhattan distance <= 1.
C4_ReturnedPathAdjacent ==
    Returned =>
        \A i \in 2..Len(node_pos) : Manhattan(node_pos[i], node_pos[i - 1]) <= 1

C4_Witness ==
    /\ Returned
    /\ Len(node_pos) >= 3
    /\ \E i \in 2..Len(node_pos) : node_pos[i][1] < node_pos[i - 1][1]
    /\ \E i \in 2..Len(node_pos) : node_pos[i] = node_pos[i - 1]

\* C5: every position of every returned path, of both variants, is inside the
\* grid and not on an obstacle cell.
C5_ReturnedPathInBoundsAndFree ==
    Returned =>
        \A i \in 1..Len(node_pos) : InBounds(node_pos[i]) /\ ~IsObstacle(node_pos[i])

C5_Witness ==
    /\ Returned
    /\ each_barrier(grid) # <<>>
    /\ Len(node_pos) >= 3
    /\ node_pos[Len(node_pos)] = Destination
    /\ Destination # Start

\* C6: every returned path, of both variants, starts at (0,0).
C6_ReturnedPathStartsAtOrigin ==
    Returned => (Len(node_pos) >= 1 /\ node_pos[1] = <<0, 0>>)

C6_Witness ==
    /\ Returned
    /\ Len(node_pos) >= 2
    /\ node_pos[Len(node_pos)] # <<0, 0>>

\* C7: when the check is sat the call returns, and the returned path has
\* exactly t_max entries, entry i being the values the model gives to the two
\* variables named for timestep i.
C7_DecodedPathHasLengthT ==
    /\ Ended => (check_result = "sat" <=> Returned)
    /\ Returned =>
          /\ Len(node_pos) = t_max
          /\ \A i \in 0..t_max - 1 :
                node_pos[i + 1] =
                    IF variant = "bonus"
                    THEN <<solution["x[" \o Str(i) \o "]"],
                           solution["y[" \o Str(i) \o "]"]>>
                    ELSE <<solution["z[" \o Str(i) \o "].x"],
                           solution["z[" \o Str(i) \o "].y"]>>

C7_Witness ==
    /\ Returned
    /\ t_max = MaxT
    /\ Len(node_pos) = MaxT
    /\ node_pos[MaxT] # node_pos[1]

\* C8: destination-bonus variant: the constraints are satisfiable for every
\* input grid (staying at (0,0) satisfies them), so the check is never unsat
\* and the call never ends in an error.
C8_BonusNeverInfeasible ==
    variant = "bonus" =>
        /\ check_result # "unsat"
        /\ pc # "error"
        /\ Built =>
              [v \in BonusNames(t_max) |-> 0] \in Models(constraints, declared, Domain(grid))

\* C9: a grid whose start cell or destination cell is an obstacle is rejected
\* before any solver check: no check is made and no path is produced.
C9_BlockedGridRejectedBeforeCheck ==
    (IsObstacle(Start) \/ IsObstacle(Destination)) =>
        /\ check_result = "none"
        /\ pc \notin {"decode", "done"}
        /\ node_pos = <<>>

\* C10: fixed-endpoint variant: when the destination cannot be reached from
\* (0,0) through free cells by 4-neighbour moves, the check is unsat and the
\* call ends in the 'no bueno' exception, whatever the horizon.
C10_UnreachableIsInfeasible ==
    (variant = "fixed" /\ check_result # "none" /\ Destination \notin Reachable) =>
        /\ check_result = "unsat"
        /\ pc = "error"
        /\ err = "no bueno"
        /\ node_pos = <<>>

C10_Witness ==
    /\ variant = "fixed"
    /\ {Start, Destination} \subseteq FreeCells
    /\ Destination \notin Reachable
    /\ Cardinality(Reachable) >= 2
    /\ t_max = MaxT
    /\ pc = "error"
    /\ err = "no bueno"

\* the name of coordinate c ("x" or "y") of timestep i in the running variant
CoordName(i, c) ==
    IF variant = "bonus" THEN c \o "[" \o Str(i) \o "]"
    ELSE "z[" \o Str(i) \o "]." \o c

\* C11: a call is all-or-nothing in both variants: no path exists before the
\* call returns, a call that ends in an error leaves no path, and a returned
\* path has t_max entries, each the pair of values bound to the two variables
\* of its timestep by the model, a model that satisfies every constraint that
\* was emitted.
C11_AllOrNothing ==
    /\ ~Returned => node_pos = <<>>
    /\ pc = "error" => err # "none"
    /\ Returned =>
          /\ err = "none"
          /\ Len(node_pos) = t_max
          /\ \A i \in 0..t_max - 1 :
                node_pos[i + 1] = <<solution[CoordName(i, "x")],
                                    solution[CoordName(i, "y")]>>
          /\ \A j \in 1..Len(constraints) : Holds(constraints[j], solution)

C11_Witness ==
    /\ variant = "fixed"
    /\ Returned
    /\ t_max = MaxT
    /\ each_barrier(grid) # <<>>
    /\ \E i \in 1..t_max : node_pos[i][1] # node_pos[i][2]

\* the names the decoding loop looks up
ExpectedNames == { CoordName(i, c) : i \in 0..t_max - 1, c \in {"x", "y"} }

\* the path the model binds by name
ByName ==
    [i \in 1..t_max |-> <<solution[CoordName(i - 1, "x")],
                           solution[CoordName(i - 1, "y")]>>]

\* node_pos as the running variant decodes it from the model yielded in order o
NodePosIn(o) ==
    IF variant = "bonus" THEN BonusNodePos(ModelEntries(solution, o), t_max)
    ELSE FixedNodePos(ModelEntries(solution, o), t_max)

\* C12: decoding does not depend on the order in which the model yields its
\* (name, value) entries: for every ordering of the entries of a model that
\* binds all 2 * t_max names, entry t of the decoded path is the pair of values
\* bound to the x- and the y-variable named for timestep t.
C12_DecodeIgnoresModelOrder ==
    ExpectedNames \subseteq DOMAIN solution =>
        /\ pc = "decode" =>
              { NodePosIn(o) : o \in Orderings(DOMAIN solution) }
                  = { [raised |-> FALSE, path |-> ByName] }
        /\ pc # "decode" => (Returned /\ node_pos = ByName)

C12_Witness ==
    /\ Returned
    /\ t_max = MaxDecodeT
    /\ node_pos[1][1] # node_pos[1][2]
    /\ node_pos[1] # node_pos[t_max]

\* C13: when the model handed over after a sat check does not bind one of the
\* 2 * t_max names, decoding raises (KeyError) whatever the order of the
\* entries, the call ends in that error and node_pos stays empty: no default
\* value stands in for the missing coordinate.
C13_MissingVariableIsAnError ==
    (check_result = "sat" /\ ~(ExpectedNames \subseteq DOMAIN solution)) =>
        /\ pc = "decode" => \A o \in Orderings(DOMAIN solution) : NodePosIn(o).raised
        /\ pc # "decode" => (pc = "error" /\ err = "KeyError" /\ node_pos = <<>>)

C13_Witness ==
    /\ pc = "error"
    /\ err = "KeyError"
    /\ check_result = "sat"
    /\ t_max = MaxDecodeT
    /\ Cardinality(DOMAIN solution) = 2 * t_max - 1

\* the name the code gives to coordinate c ("x" or "y") of timestep i
CodeName(i, c) ==
    IF variant = "bonus" THEN (IF c = "x" THEN XName(i) ELSE YName(i))
    ELSE (IF c = "x" THEN ZX(i) ELSE ZY(i))

\* C14: variable naming is injective: the names declared so far are pairwise
\* distinct, a finished build has declared exactly 2 * t_max names, namely the
\* names of the pairs (timestep, coordinate), and two different pairs never
\* share a name, so a name determines its pair.
C14_NamesAreInjective ==
    LET pairs == (0..t_max - 1) \X {"x", "y"}
    IN  /\ Cardinality({ declared[k] : k \in 1..Len(declared) }) = Len(declared)
        /\ \A p, q \in pairs : CodeName(p[1], p[2]) = CodeName(q[1], q[2]) => p = q
        /\ Built =>
              /\ Len(declared) = 2 * t_max
              /\ { declared[k] : k \in 1..Len(declared) }
                    = { CodeName(p[1], p[2]) : p \in pairs }

C14_Witness ==
    /\ Built
    /\ t_max = MaxLongT
    /\ t_max > 10
    /\ Len(declared) = 2 * t_max

\* grid g with every positive value replaced by 1
Sign(g) == [y \in DOMAIN g |-> [x \in DOMAIN g[y] |-> IF g[y][x] > 0 THEN 1 ELSE 0]]

\* every constraint the running variant emits for grid g and horizon n
RECURSIVE Emitted(_, _)
Emitted(g, n) ==
    IF variant = "bonus"
    THEN (IF n = 0 THEN << >>
          ELSE Emitted(g, n - 1) \o BonusStepConstraints(g, n - 1))
    ELSE (IF n = 0 THEN FixedSource \o FixedDestination(g, t_max)
          ELSE Emitted(g, n - 1) \o FixedStepConstraints(g, n - 1))

\* C15: a cell is an obstacle exactly when its value is positive, whatever the
\* value: the constraints built for a grid are those built for the grid with
\* every positive value replaced by 1 (so grids with the same positive cells
\* give the same constraints), every timestep is kept off every positive cell,
\* and no constraint keeps a timestep off a cell holding 0.
C15_ObstacleIffPositive ==
    Built =>
        /\ constraints = Emitted(Sign(grid), t_max)
        /\ { <<constraints[j].v1, constraints[j].v2, constraints[j].c1, constraints[j].c2>> :
                j \in { k \in 1..Len(constraints) : constraints[k].kind = "ne" } }
             = { <<CodeName(i, "x"), CodeName(i, "y"), p[1], p[2]>> :
                   i \in 0..t_max - 1, p \in { q \in GridCells : Cell(grid, q[1], q[2]) > 0 } }

C15_Witness ==
    /\ variant = "fixed"
    /\ Built
    /\ t_max = MaxSmallT
    /\ \E p \in GridCells : Cell(grid, p[1], p[2]) = MaxMagnitude
    /\ \E p \in GridCells : Cell(grid, p[1], p[2]) = 0
    /\ MaxMagnitude > 1

\* what one timestep on the destination is worth
Weight == IF variant = "bonus" THEN 1 ELSE 100

\* C16: the objective handed to maximize has one term per timestep, each worth
\* Weight (1 in the destination-bonus code, 100 in the fixed-endpoint code) or
\* 0 according to whether that timestep is on the destination (W-1, H-1), and
\* its value on the model the solver returns is Weight times the number of
\* timesteps the decoded path is on the destination.
C16_ObjectiveCountsDestinationSteps ==
    /\ Len(score) = t
    /\ \A k \in 1..Len(score) :
          /\ score[k].w = Weight
          /\ <<score[k].v1, score[k].v2>> = <<CodeName(k - 1, "x"), CodeName(k - 1, "y")>>
          /\ <<score[k].c1, score[k].c2>> = Destination
    /\ pc \in {"decode", "done"} =>
          Sum(score, solution) = Weight * PathScore(ByName)

C16_Witness ==
    /\ variant = "fixed"
    /\ Returned
    /\ t_max = MaxT
    /\ Sum(score, solution) = 200

\* C17: the same (grid, t_max, variant) solved twice: the two calls agree on
\* feasibility (both return or both end in the same error), each returned path
\* is a valid path of t_max positions (starts at (0,0), stays in bounds and off
\* the obstacles, moves by Manhattan distance <= 1), and in the destination-
\* bonus variant the two paths have the same Score, even when they differ.
C17_SolvingTwiceAgrees ==
    /\ Returned => node_pos \in ValidPaths
    /\ (first # NoOutcome /\ Ended) =>
          /\ pc = first.pc
          /\ err = first.err
          /\ Returned =>
                /\ first.node_pos \in ValidPaths
                /\ Len(node_pos) = Len(first.node_pos)
                /\ variant = "bonus" => PathScore(node_pos) = PathScore(first.node_pos)

C17_Witness ==
    /\ variant = "bonus"
    /\ first # NoOutcome
    /\ Returned
    /\ node_pos # first.node_pos
    /\ PathScore(node_pos) >= 1

\* the path the notebook shows for Scenario A
ScenarioAPath == << <<0, 0>>, <<0, 1>>, <<1, 1>>, <<2, 1>>, <<2, 2>> >>

\* C18 (Scenario A): on the 3 x 3 grid with obstacles at (1,0) and (1,2) and
\* horizon 5, the fixed-endpoint call is feasible and returns a path of 5
\* positions that ends at (2,2); the sequence (0,0),(0,1),(1,1),(2,1),(2,2)
\* satisfies every emitted constraint (bounds, adjacency, obstacle exclusion
\* and both endpoint pins).
C18_ScenarioA ==
    (variant = "fixed" /\ grid = ScenarioGrid /\ t_max = ScenarioA_T) =>
        /\ IsObstacle(<<1, 0>>) /\ IsObstacle(<<1, 2>>) /\ Cardinality(FreeCells) = 7
        /\ Built =>
              ScenarioAPath \in
                  { FixedDecode(m, t_max) : m \in Models(constraints, declared, Domain(grid)) }
        /\ Ended =>
              /\ Returned
              /\ Len(node_pos) = 5
              /\ node_pos[5] = <<2, 2>>

C18_Witness ==
    /\ variant = "fixed"
    /\ grid = ScenarioGrid
    /\ t_max = ScenarioA_T
    /\ Returned
    /\ node_pos = ScenarioAPath

\* C19 (Scenario B): on the 3 x 3 grid with obstacles at (1,0) and (1,2) and
\* horizon 6, the destination-bonus call returns a path whose Score is at
\* least 1 and none of whose positions is (1,0) or (1,2).
C19_ScenarioB ==
    (variant = "bonus" /\ grid = ScenarioGrid /\ t_max = ScenarioB_T /\ Ended) =>
        /\ Returned
        /\ PathScore(node_pos) >= 1
        /\ Sum(score, solution) >= 1
        /\ \A i \in 1..Len(node_pos) : node_pos[i] \notin {<<1, 0>>, <<1, 2>>}

C19_Witness ==
    /\ variant = "bonus"
    /\ grid = ScenarioGrid
    /\ t_max = ScenarioB_T
    /\ Returned
    /\ Len(node_pos) = 6
    /\ PathScore(node_pos) = 2

\* C20 (Scenario C): on the grid of one free cell with horizon 1 the start
\* and the destination are the same cell, and the call of either variant
\* returns the path [(0,0)]; in the destination-bonus variant its Score is 1.
C20_ScenarioC ==
    (grid = << <<0>> >> /\ t_max = 1) =>
        /\ Start = Destination
        /\ check_result # "unsat"
        /\ Ended =>
              /\ Returned
              /\ node_pos = << <<0, 0>> >>
              /\ variant = "bonus" =>
                    (PathScore(node_pos) = 1 /\ Sum(score, solution) = 1)

C20_Witness ==
    /\ variant = "bonus"
    /\ grid = << <<0>> >>
    /\ t_max = 1
    /\ Returned
    /\ node_pos = << <<0, 0>> >>
    /\ Sum(score, solution) = 1

\* C21: a grid whose rows differ in length is rejected before any constraint
\* is emitted or any solver check is made, and never produces a path.
C21_RaggedGridRejectedAtConstruction ==
    (\E y \in 1..Len(grid) : Len(grid[y]) # Len(grid[1])) =>
        /\ constraints = <<>>
        /\ check_result = "none"
        /\ pc \notin {"decode", "done"}
        /\ node_pos = <<>>

\* the number of 4-neighbour moves through free cells from the cells S, n
\* moves away from the start, to the destination; -1 when there is no way
RECURSIVE DistanceFrom(_, _)
DistanceFrom(S, n) ==
    IF Destination \in S THEN n
    ELSE LET N == S \cup { c \in FreeCells : \E q \in S : Manhattan(c, q) = 1 }
         IN  IF N = S THEN -1 ELSE DistanceFrom(N, n + 1)

ShortestDistance == IF Start \in FreeCells THEN DistanceFrom({Start}, 0) ELSE -1

\* C22: fixed-endpoint variant, destination reachable from (0,0) at shortest
\* 4-neighbour distance d through free cells: the check is sat exactly when
\* t_max >= d + 1 (so unsat for every t_max <= d, sat for every t_max > d, and
\* sat at t_max implies sat at t_max + 1); with t_max = 1 the check is sat only
\* on a grid of one cell.
C22_FixedFeasibleIffHorizonCoversDistance ==
    (variant = "fixed" /\ check_result # "none") =>
        /\ ShortestDistance >= 0 =>
              (check_result = "sat" <=> t_max >= ShortestDistance + 1)
        /\ (t_max = 1 /\ check_result = "sat") => (Len(grid) = 1 /\ Len(grid[1]) = 1)

C22_Witness ==
    /\ variant = "fixed"
    /\ check_result = "sat"
    /\ ShortestDistance >= 3
    /\ t_max = ShortestDistance + 1
    /\ each_barrier(grid) # <<>>

\* p is a valid path of t_max positions
IsValidPath(p) ==
    /\ Len(p) = t_max
    /\ p[1] = Start
    /\ \A i \in 1..Len(p) : p[i] \in FreeCells
    /\ \A i \in 2..Len(p) : Manhattan(p[i], p[i - 1]) <= 1

\* C23: destination-bonus variant with (0,0) free: the call returns a valid
\* path.  When the destination is reachable at shortest distance d <= t_max - 1
\* the returned (optimal) path has Score t_max - d: it is off the destination
\* for its first d positions, on it at position d and parked there at every
\* later timestep.  When d > t_max - 1 or the destination is unreachable the
\* Score is 0.
C23_BonusScoreIsHorizonMinusDistance ==
    (variant = "bonus" /\ Start \in FreeCells /\ Ended) =>
        /\ Returned
        /\ IsValidPath(node_pos)
        /\ Sum(score, solution) = PathScore(node_pos)
        /\ IF ShortestDistance >= 0 /\ ShortestDistance <= t_max - 1
           THEN /\ PathScore(node_pos) = t_max - ShortestDistance
                /\ \A i \in 1..t_max :
                      (node_pos[i] = Destination) <=> (i - 1 >= ShortestDistance)
           ELSE PathScore(node_pos) = 0

C23_Witness ==
    /\ variant = "bonus"
    /\ Returned
    /\ ShortestDistance >= 2
    /\ PathScore(node_pos) >= 2
    /\ PathScore(node_pos) = t_max - ShortestDistance
    /\ each_barrier(grid) # <<>>

\* C24: the two variants on the same (grid, t_max).  Whenever the fixed-
\* endpoint call is feasible, its maximised objective is 100 times the
\* maximum Score of the destination-bonus call, and every optimal path of the
\* destination-bonus call ends at (W-1, H-1).  Maximising the objective does
\* not change the verdict of the fixed-endpoint constraints: the check is
\* unsat exactly when the constraints alone have no model.
C24_VariantsAgree ==
    /\ (variant = "fixed" /\ check_result # "none") =>
          (check_result = "unsat" <=> Models(constraints, declared, Domain(grid)) = {})
    /\ (variant = "fixed" /\ check_result = "sat" /\ first # NoOutcome) =>
          /\ first.pc = "done"
          /\ Sum(score, solution) = 100 * PathScore(first.node_pos)
          /\ first.node_pos[t_max] = Destination
    /\ (variant = "bonus" /\ first # NoOutcome /\ first.pc = "done" /\ Ended) =>
          /\ Returned
          /\ 100 * Sum(score, solution) = 100 * PathScore(first.node_pos)
          /\ first.node_pos[t_max] = Destination
          /\ node_pos[t_max] = Destination

C24_Witness ==
    /\ variant = "fixed"
    /\ check_result = "sat"
    /\ first # NoOutcome
    /\ Sum(score, solution) = 100 * (t_max - ShortestDistance)
    /\ PathScore(first.node_pos) = t_max - ShortestDistance
    /\ ShortestDistance = 2
    /\ each_barrier(grid) # <<>>

\* the relative moves (dx, dy) of one timestep: stay, x +- 1, y +- 1
FiveMoves == { <<0, 0>>, <<1, 0>>, <<-1, 0>>, <<0, 1>>, <<0, -1>> }

\* the step constraints emitted so far
StepConstraints == { constraints[j] : j \in { k \in 1..Len(constraints) :
                                               constraints[k].kind = "dist" } }

\* C25: the adjacency constraint of a timestep admits exactly the five
\* relative moves (0,0), (+-1,0), (0,+-1): diagonal moves and moves of two or
\* more cells are excluded.  Every timestep after the first has one such
\* constraint, relating it to the timestep before.  Repeating a position is
\* admitted at every free cell, not only at the destination: with both
\* timesteps on that cell the bounds, obstacle and adjacency constraints of
\* the timestep hold.
C25_AdjacencyAdmitsFiveMoves ==
    /\ \A c \in StepConstraints :
          \A a \in [VarsOf(c) -> (0 - MaxStep)..MaxStep] :
              Holds(c, a) <=> (<<a[c.v1] - a[c.v3], a[c.v2] - a[c.v4]>> \in FiveMoves)
    /\ (pc = "loop" /\ FirstBadCell(grid) = 0) =>
          \A i \in 1..t - 1 :
              \E c \in StepConstraints :
                  /\ {c.v1, c.v3} = {CodeName(i, "x"), CodeName(i - 1, "x")}
                  /\ {c.v2, c.v4} = {CodeName(i, "y"), CodeName(i - 1, "y")}
    /\ (pc = "loop" /\ FirstBadCell(grid) = 0) =>
          \A i \in 1..t - 1 : \A q \in FreeCells :
              LET names == {CodeName(i, "x"), CodeName(i, "y"),
                            CodeName(i - 1, "x"), CodeName(i - 1, "y")}
                  a     == [n \in names |->
                               IF n \in {CodeName(i, "x"), CodeName(i - 1, "x")}
                               THEN q[1] ELSE q[2]]
              IN  \A j \in 1..Len(constraints) :
                      (/\ constraints[j].kind \notin {"eq", "at"}
                       /\ CodeName(i, "x") \in VarsOf(constraints[j])
                       /\ VarsOf(constraints[j]) \subseteq names)
                          => Holds(constraints[j], a)
    /\ Returned =>
          \A i \in 2..t_max :
              <<node_pos[i][1] - node_pos[i - 1][1],
                node_pos[i][2] - node_pos[i - 1][2]>> \in FiveMoves

\* a returned path that waits on a free cell other than the destination and
\* also moves
C25_Witness ==
    /\ Returned
    /\ \E i \in 2..t_max : node_pos[i] = node_pos[i - 1] /\ node_pos[i] # Destination
    /\ \E i \in 2..t_max : node_pos[i] # node_pos[i - 1]

\* the positions that the bounds and obstacle constraints emitted for
\* timestep i admit, every other constraint left aside
AdmittedAt(i) ==
    { q \in Domain(grid) \X Domain(grid) :
        LET a == (CodeName(i, "x") :> q[1]) @@ (CodeName(i, "y") :> q[2])
        IN  \A j \in 1..Len(constraints) :
                (/\ constraints[j].kind \in {"gt", "lt", "ne", "within"}
                 /\ VarsOf(constraints[j]) \subseteq DOMAIN a
                 /\ VarsOf(constraints[j]) # {})
                    => Holds(constraints[j], a) }

\* C26: the grid is indexed grid[y][x].  The width is the length of row 0 and
\* the height the number of rows; a positive value at row r, column c keeps
\* every timestep off the cell (x = c, y = r) and off no other cell; the
\* destination, in the score terms of both variants and in the pin of the
\* fixed-endpoint variant, is (len(grid[0]) - 1, len(grid) - 1).  This holds
\* for grids that are not square.
C26_GridIsRowMajor ==
    Built =>
        /\ \A i \in 0..t_max - 1 :
              AdmittedAt(i) =
                  { q \in (0..Len(grid[1]) - 1) \X (0..Len(grid) - 1) :
                      ~(grid[q[2] + 1][q[1] + 1] > 0) }
        /\ { <<constraints[j].c1, constraints[j].c2>> :
                j \in { k \in 1..Len(constraints) : constraints[k].kind = "ne" } }
             = { <<c - 1, r - 1>> : <<r, c>> \in
                   { rc \in (1..Len(grid)) \X (1..Len(grid[1])) : grid[rc[1]][rc[2]] > 0 } }
        /\ \A j \in 1..Len(score) :
              <<score[j].c1, score[j].c2>> = <<Len(grid[1]) - 1, Len(grid) - 1>>
        /\ variant = "fixed" =>
              \E j \in 1..Len(constraints) :
                  /\ constraints[j].kind = "at"
                  /\ constraints[j].v1 = CodeName(t_max - 1, "x")
                  /\ constraints[j].v2 = CodeName(t_max - 1, "y")
                  /\ <<constraints[j].c1, constraints[j].c2>>
                        = <<Len(grid[1]) - 1, Len(grid) - 1>>

\* a grid of one row and three columns or more whose only obstacle is in
\* column 1
C26_Witness ==
    /\ Built
    /\ t_max >= 2
    /\ Len(grid) = 1
    /\ Len(grid[1]) >= 3
    /\ grid[1][2] > 0
    /\ \A c \in 1..Len(grid[1]) : c # 2 => grid[1][c] = 0

(***************************************************************************)
(* Optimal Stopping: the game as its rules state it, for a schedule that   *)
(* gives each miner a start time.                                          *)
(***************************************************************************)
\* the cells run with the constants of the notebook
NotebookRun ==
    /\ tmax = 20
    /\ miner_cost = 6
    /\ start_gold = 6
    /\ start_miners = 0
    /\ max_miners = 6

\* the number of miners of schedule st with a start time in set S
Started(st, S) == Cardinality({ i \in 1..Len(st) : st[i] \in S })

\* the gold at time u under schedule st: 6 at time 0, then one gold per
\* miner started earlier, less 6 gold per miner started at that time
RECURSIVE GoldAt(_, _)
GoldAt(st, u) ==
    IF u = 0 THEN 6
    ELSE GoldAt(st, u - 1) + Started(st, 1..u - 1) - 6 * Started(st, {u})

\* the schedules of n miners over horizon h, start times ascending, h meaning
\* never, under which the gold is never negative
Schedules(h, n) ==
    { st \in [1..n -> 1..h] :
        /\ \A i \in 2..n : st[i] >= st[i - 1]
        /\ \A u \in 0..h - 1 : GoldAt(st, u) >= 0 }

\* the gold at the last time unit in model m
FinalGold(m) == m.gold[tmax]

\* C27: with tmax = 20, a miner cost of 6, 6 gold and no miner at the start
\* and at most 6 miners, the goal-raising loop ends with prev_model holding
\* the largest gold[tmax-1] of all the schedules the rules allow, and that
\* maximum is 28.  With a shorter horizon and fewer miners the loop also ends
\* on the maximum over all schedules, when some schedule beats the starting
\* gold.
C27_LoopEndsAtMaximumGold ==
    cell = "exit" =>
        /\ NotebookRun =>
              /\ prev_model # Unbound
              /\ FinalGold(prev_model) = 28
              /\ goal = 28
        /\ prev_model # Unbound =>
              /\ prev_model \in BaseModels
              /\ \A m \in BaseModels : FinalGold(m) <= FinalGold(prev_model)
        /\ tmax <= MaxHorizon =>
              \A st \in Schedules(tmax, max_miners) :
                  GoldAt(st, tmax - 1) <=
                      (IF prev_model = Unbound THEN 6 ELSE FinalGold(prev_model))

C27_Witness ==
    /\ cell = "exit"
    /\ NotebookRun
    /\ prev_model # Unbound
    /\ FinalGold(prev_model) = 28
    /\ Started(prev_model.miner_start, 1..tmax - 1) >= 1

\* C28: in every model the loop accepts, gold[t] >= 0 for every t in
\* 0..tmax-1, gold[0] = 6 and gold[t] = gold[t-1] + (the number of miners
\* with start < t) - 6 * (the number of miners with start = t); a miner whose
\* start time is tmax never costs or produces anything: the gold is that of
\* the schedule without it.  With a short horizon, the models of the rules
\* are exactly the schedules under which the gold is never negative.
C28_AcceptedModelsFollowTheRules ==
    /\ prev_model # Unbound =>
          LET gold  == prev_model.gold
              start == prev_model.miner_start
              kept  == SelectSeq(start, LAMBDA m : m # tmax)
          IN  /\ Len(gold) = tmax
              /\ \A u \in 0..tmax - 1 : gold[u + 1] >= 0
              /\ gold[1] = 6
              /\ \A u \in 1..tmax - 1 :
                    gold[u + 1] = gold[u] + Started(start, 1..u - 1)
                                          - 6 * Started(start, {u})
              /\ \A u \in 1..tmax - 1 :
                    gold[u + 1] = gold[u] + Started(kept, 1..u - 1)
                                          - 6 * Started(kept, {u})
    /\ (cell = "start" /\ tmax <= MaxHorizon) =>
          /\ { m.miner_start : m \in BaseModels } = Schedules(tmax, max_miners)
          /\ \A m \in BaseModels :
                \A u \in 0..tmax - 1 : m.gold[u + 1] = GoldAt(m.miner_start, u)

\* an accepted model of the notebook's run with a miner never bought, two
\* miners bought, and no gold left at some time
C28_Witness ==
    /\ NotebookRun
    /\ prev_model # Unbound
    /\ Started(prev_model.miner_start, {tmax}) >= 1
    /\ Started(prev_model.miner_start, 1..tmax - 1) >= 2
    /\ \E u \in 1..tmax - 1 : prev_model.gold[u + 1] = 0

\* C29: the goal-raising loop terminates.  Every sat iteration binds
\* prev_model to a model of the check, strictly increases goal and pops the
\* temporary constraint, leaving the rules alone in the solver.  The loop is
\* left at the first check that is not sat, prev_model still being the model
\* of the last sat check and goal its gold[tmax-1].  The first check is sat,
\* so that prev_model is bound when the loop is left, whenever a miner can
\* be bought and the horizon is long enough for it to earn more than its
\* cost of 6 (tmax - 2 > 6), as with the constants of the notebook.
C29_LoopTerminates ==
    /\ <>(cell = "exit")
    /\ [][cell = "model" => /\ s = "sat"
                            /\ prev_model' \in ModelsOf(solver)
                            /\ FinalGold(prev_model') > goal]_vars
    /\ [][cell = "goal" => /\ goal' > goal
                           /\ goal' = FinalGold(prev_model)]_vars
    /\ [][cell = "pop" => /\ Len(solver) = 2
                          /\ solver' = << <<Rules>> >>
                          /\ cell' = "push"]_vars
    /\ [][cell = "check" => IF s' = "sat"
                            THEN cell' = "model"
                            ELSE cell' = "exit" /\ prev_model' = prev_model]_vars
    /\ [][cell # "model" => prev_model' = prev_model]_vars
    /\ [](cell = "exit" =>
            /\ s = "unsat"
            /\ prev_model # Unbound => goal = FinalGold(prev_model)
            /\ (max_miners - start_miners >= 1 /\ tmax - 2 > 6) => prev_model # Unbound)

\* a second check that is sat: a model is bound, the goal was raised to its
\* gold, the temporary constraint was popped and the next one pushed
C29_Witness ==
    /\ cell = "model"
    /\ prev_model # Unbound
    /\ goal = FinalGold(prev_model)
    /\ goal > start_gold
    /\ solver = << <<Rules>>, <<Above(goal)>> >>

=============================================================================
